---- MODULE Spec2Model ----
(***************************************************************************)
(* ISO date / time core (src/src/iso.rs): IsoDate, IsoTime, IsoDateTime    *)
(* and the epoch-day helpers, as pure operators applied by a one-call      *)
(* state machine: Init draws a call (function name and arguments) from     *)
(* bounded sets, the action of that function applies it and stores the     *)
(* returned value.                                                         *)
(*                                                                         *)
(* Number representation.  TLC integers are 32 bits wide, so a quantity    *)
(* the code holds in an f64, a u64 or an i128 and that exceeds 2^31 is     *)
(* carried as a mixed-radix record:                                        *)
(*   - an epoch time in milliseconds is [d, ms]: d whole days and          *)
(*     0 <= ms < MS_PER_DAY milliseconds (value d * MS_PER_DAY + ms);      *)
(*   - an epoch nanosecond count is [d, ms, sub] with 0 <= sub < 10^6;     *)
(*   - a nanosecond quantity inside a day is [s, n]: s whole seconds and   *)
(*     0 <= n < 10^9 nanoseconds.                                          *)
(* The f64 values the code computes on the modelled inputs are integers    *)
(* below 2^53, hence exact, except the fused multiply-add of               *)
(* utc_epoch_nanos, whose rounding to the nearest f64 is F64Round.         *)
(***************************************************************************)
EXTENDS Integers, Sequences, FiniteSets, TLC

VARIABLES pc, call, ret

vars == <<pc, call, ret>>

(***************************************************************************)
(* Bounds of the model.                                                    *)
(***************************************************************************)
\* IsoDate::new is called with month in 1-MonthSlack .. 12+MonthSlack
MonthSlack == 2
\* IsoDate::new is called with day in 1-DaySlack .. 31+DaySlack
DaySlack == 9
\* balance / iso_date_to_epoch_days: months up to MonthCarry out of 1..12
MonthCarry == 14
\* balance / iso_date_to_epoch_days: days up to DayCarry out of 1..31
DayCarry == 2
\* diff_iso_date: the two dates are at most MaxYearSpan calendar years apart
MaxYearSpan == 3
\* IsoTime::balance: each field takes the multiples of its radix up to CarryN
CarryN == 1
\* IsoDate::add_date_duration: months from -AddMonths to AddMonths are added
AddMonths == 3

(***************************************************************************)
(* Integer helpers with Rust's semantics.                                  *)
(***************************************************************************)
Abs(x) == IF x < 0 THEN -x ELSE x

\* i32::clamp
Clamp(x, lo, hi) == IF x < lo THEN lo ELSE IF x > hi THEN hi ELSE x

\* Rust's `/` on integers truncates toward zero (b > 0)
TruncDiv(a, b) == IF a >= 0 THEN a \div b ELSE -((-a) \div b)

\* i32::div_euclid and i32::rem_euclid for a positive divisor
DivEuclid(a, b) == a \div b

RemEuclid(a, b) == a % b

\* Ord::cmp as -1, 0, 1
CmpInt(a, b) == IF a < b THEN -1 ELSE IF a > b THEN 1 ELSE 0

Ok(v) == [ok |-> TRUE, val |-> v]

RangeError == [ok |-> FALSE, val |-> "RangeError"]

Pending == [ok |-> FALSE, val |-> "pending"]

(***************************************************************************)
(* crate::utils, the epoch-time functions iso.rs calls.  An epoch time is  *)
(* [d, ms].                                                                *)
(***************************************************************************)
MS_PER_DAY == 86400000

EpochTime(d, ms) == [d |-> d + (ms \div MS_PER_DAY), ms |-> ms % MS_PER_DAY]

\* f64 addition of two epoch times
EpochTimeAdd(t, u) == EpochTime(t.d + u.d, t.ms + u.ms)

\* f64 negation
EpochTimeNeg(t) == EpochTime(-t.d, -t.ms)

\* f64::copysign(t, s): the magnitude of t with the sign of s (s = +0.0 is positive)
EpochTimeCopysign(t, s) ==
    LET mag == IF t.d < 0 THEN EpochTimeNeg(t) ELSE t
    IN  IF s.d < 0 THEN EpochTimeNeg(mag) ELSE mag

IsLeapYear(y) == (y % 4 = 0) /\ ((y % 100 # 0) \/ (y % 400 = 0))

mathematical_days_in_year(y) == IF IsLeapYear(y) THEN 366 ELSE 365

\* day number of January 1st of year y
epoch_day_number_for_year(y) ==
    365 * (y - 1970) + ((y - 1969) \div 4) - ((y - 1901) \div 100)
        + ((y - 1601) \div 400)

epoch_time_for_year(y) == EpochTime(epoch_day_number_for_year(y), 0)

\* days of the year before 0-based month m
DaysBeforeMonth(m, y) ==
    LET leap == mathematical_days_in_year(y) - 365
    IN  CASE m = 0 -> 0
          [] m = 1 -> 31
          [] m = 2 -> 59 + leap
          [] m = 3 -> 90 + leap
          [] m = 4 -> 120 + leap
          [] m = 5 -> 151 + leap
          [] m = 6 -> 181 + leap
          [] m = 7 -> 212 + leap
          [] m = 8 -> 243 + leap
          [] m = 9 -> 273 + leap
          [] m = 10 -> 304 + leap
          [] m = 11 -> 334 + leap
          [] OTHER -> 365 + leap

\* the time within year y at which 0-based month m begins
epoch_time_for_month_given_year(m, y) == EpochTime(DaysBeforeMonth(m, y), 0)

epoch_time_to_day_number(t) == t.d

\* day * MS_PER_DAY + time, floored
epoch_days_to_epoch_ms(day, time) == EpochTime(day, time)

RECURSIVE YearDown(_, _)
YearDown(y, d) == IF epoch_day_number_for_year(y) > d THEN YearDown(y - 1, d) ELSE y

RECURSIVE YearUp(_, _)
YearUp(y, d) == IF epoch_day_number_for_year(y + 1) <= d THEN YearUp(y + 1, d) ELSE y

\* the year y with epoch_time_for_year(y) <= t < epoch_time_for_year(y + 1)
epoch_time_to_epoch_year(t) ==
    LET d == t.d
        guess == 1970 + (d \div 146097) * 400 + (((d % 146097) * 400) \div 146097)
    IN  YearUp(YearDown(guess, d), d)

epoch_time_to_day_in_year(t) ==
    t.d - epoch_day_number_for_year(epoch_time_to_epoch_year(t))

\* 0-based month of the year
epoch_time_to_month_in_year(t) ==
    LET y == epoch_time_to_epoch_year(t)
        day == epoch_time_to_day_in_year(t)
    IN  CHOOSE m \in 0..11 :
            DaysBeforeMonth(m, y) <= day /\ day < DaysBeforeMonth(m + 1, y)

\* 1-based day of the month
epoch_time_to_date(t) ==
    LET y == epoch_time_to_epoch_year(t)
    IN  epoch_time_to_day_in_year(t)
            - DaysBeforeMonth(epoch_time_to_month_in_year(t), y) + 1

\* month is 1-based
iso_days_in_month(year, month) ==
    CASE month \in {1, 3, 5, 7, 8, 10, 12} -> 31
      [] month \in {4, 6, 9, 11} -> 30
      [] OTHER -> 28 + (mathematical_days_in_year(year) - 365)

(***************************************************************************)
(* IsoDate helpers (iso.rs, "IsoDate specific utility functions").          *)
(***************************************************************************)
IsoDate(y, m, d) == [year |-> y, month |-> m, day |-> d]

\* derived Ord of IsoDate: year, then month, then day
IsoDate_cmp(a, b) ==
    IF a.year # b.year THEN CmpInt(a.year, b.year)
    ELSE IF a.month # b.month THEN CmpInt(a.month, b.month)
    ELSE CmpInt(a.day, b.day)

\* month is 0-based and may be out of range
iso_date_to_epoch_days(year, month, day) ==
    LET resolved_year == year + TruncDiv(month, 12)
        resolved_month == RemEuclid(month, 12)
        year_t == epoch_time_for_year(resolved_year)
        month_t == epoch_time_for_month_given_year(resolved_month, resolved_year)
    IN  epoch_time_to_day_number(
            EpochTimeCopysign(EpochTimeAdd(year_t, month_t), year_t)) + day - 1

\* mutant of is_valid_date: the day is checked against 31, not the month length
is_valid_date_AnyMonth31(year, month, day) ==
    IF ~(month \in 1..12) THEN FALSE
    ELSE day \in 1..31

is_valid_date(year, month, day) ==
    IF ~(month \in 1..12) THEN FALSE
    ELSE day \in 1..iso_days_in_month(year, month)

iso_date_surpasses(this, other, sign) == IsoDate_cmp(this, other) * sign = 1

balance_iso_year_month(year, month) ==
    <<year + DivEuclid(month - 1, 12), RemEuclid(month - 1, 12) + 1>>

(***************************************************************************)
(* IsoTime record and the limit check of a date-time.                      *)
(***************************************************************************)
IsoTime(h, mi, s, ms, us, ns) ==
    [hour |-> h, minute |-> mi, second |-> s,
     millisecond |-> ms, microsecond |-> us, nanosecond |-> ns]

IsoTime_noon == IsoTime(12, 0, 0, 0, 0, 0)

\* milliseconds since midnight
IsoTime_to_epoch_ms(t) ==
    ((t.hour * 3600000 + t.minute * 60000) + t.second * 1000) + t.millisecond

IsoDate_to_epoch_days(d) == iso_date_to_epoch_days(d.year, d.month - 1, d.day)

\* a nanosecond count as days, milliseconds of the day and nanoseconds of the
\* millisecond: d * 86_400 * 10^9 + ms * 10^6 + sub, 0 <= ms < MS_PER_DAY,
\* 0 <= sub < 10^6
EpochNanoseconds(d, ms, sub) ==
    LET m == ms + (sub \div 1000000)
    IN  [d |-> d + (m \div MS_PER_DAY), ms |-> m % MS_PER_DAY, sub |-> sub % 1000000]

NanosLess(a, b) ==
    \/ a.d < b.d
    \/ a.d = b.d /\ a.ms < b.ms
    \/ a.d = b.d /\ a.ms = b.ms /\ a.sub < b.sub

EpochNanosecondsNeg(v) == EpochNanoseconds(-v.d, -v.ms, -v.sub)

\* the powers of two from 2^53 ns = 9_007_199_254_740_992 ns to 2^73 ns, which is
\* above every value of the model, as days, milliseconds and nanoseconds
F64_BINADES ==
    <<
      [d |-> 104, ms |-> 21599254, sub |-> 740992],
      [d |-> 208, ms |-> 43198509, sub |-> 481984],
      [d |-> 416, ms |-> 86397018, sub |-> 963968],
      [d |-> 833, ms |-> 86394037, sub |-> 927936],
      [d |-> 1667, ms |-> 86388075, sub |-> 855872],
      [d |-> 3335, ms |-> 86376151, sub |-> 711744],
      [d |-> 6671, ms |-> 86352303, sub |-> 423488],
      [d |-> 13343, ms |-> 86304606, sub |-> 846976],
      [d |-> 26687, ms |-> 86209213, sub |-> 693952],
      [d |-> 53375, ms |-> 86018427, sub |-> 387904],
      [d |-> 106751, ms |-> 85636854, sub |-> 775808],
      [d |-> 213503, ms |-> 84873709, sub |-> 551616],
      [d |-> 427007, ms |-> 83347419, sub |-> 103232],
      [d |-> 854015, ms |-> 80294838, sub |-> 206464],
      [d |-> 1708031, ms |-> 74189676, sub |-> 412928],
      [d |-> 3416063, ms |-> 61979352, sub |-> 825856],
      [d |-> 6832127, ms |-> 37558705, sub |-> 651712],
      [d |-> 13664254, ms |-> 75117411, sub |-> 303424],
      [d |-> 27328509, ms |-> 63834822, sub |-> 606848],
      [d |-> 54657019, ms |-> 41269645, sub |-> 213696],
      [d |-> 109314038, ms |-> 82539290, sub |-> 427392]
    >>

\* the distance of neighbouring f64 values at a >= 0: 1 below 2^53, and twice as
\* much from each further power of two on
F64Ulp(a) ==
    2 ^ Cardinality({j \in DOMAIN F64_BINADES : ~NanosLess(a, F64_BINADES[j])})

\* x * odd * pow modulo m, for x >= 0 and powers of two pow and m <= 2^21, the
\* factors first reduced modulo m / pow
ScaledMod(x, odd, pow, m) ==
    IF m <= pow THEN 0
    ELSE pow * (((x % (m \div pow)) * (odd % (m \div pow))) % (m \div pow))

\* a modulo the power of two m <= 2^21, for a >= 0: a day is
\* 1_318_359_375 * 2^16 ns and a millisecond 15_625 * 2^6 ns
EpochNanosecondsMod(a, m) ==
    (ScaledMod(a.d, 1318359375, 65536, m) + ScaledMod(a.ms, 15625, 64, m) + a.sub) % m

\* the f64 nearest to a >= 0, a tie going to the even multiple of the distance
F64RoundTo(a, ulp) ==
    LET r2 == EpochNanosecondsMod(a, 2 * ulp)
        r == r2 % ulp
        up == 2 * r > ulp \/ (2 * r = ulp /\ r2 >= ulp)
    IN  EpochNanoseconds(a.d, a.ms, a.sub + (IF up THEN ulp - r ELSE 0 - r))

\* the f64 nearest to a >= 0 nanoseconds, ties to the even multiple of the spacing
F64RoundNonNegative(a) ==
    CHOOSE r \in {F64RoundTo(a, ulp) : ulp \in {F64Ulp(a)}} : TRUE

F64RoundValue(v) ==
    IF v.d < 0 THEN EpochNanosecondsNeg(F64RoundNonNegative(EpochNanosecondsNeg(v)))
    ELSE F64RoundNonNegative(v)

\* the f64 nearest to v nanoseconds; rounding is symmetric about zero
F64Round(v) ==
    CHOOSE r \in {F64RoundValue(x) : x \in {v}} : TRUE

\* utc_epoch_nanos: epoch_ms.mul_add(1e6, microsecond.mul_add(1e3, nanosecond)) is one
\* rounding of the exact sum (the inner sum is below 2^53 and exact), and the subtraction
\* of the offset is a second one
utc_epoch_nanos(date, time, offset) ==
    LET epoch_ms == epoch_days_to_epoch_ms(IsoDate_to_epoch_days(date), IsoTime_to_epoch_ms(time))
        mul_add == EpochNanoseconds(epoch_ms.d, epoch_ms.ms,
                                    time.microsecond * 1000 + time.nanosecond)
    IN  CHOOSE ns \in {F64Round(EpochNanoseconds(epoch_nanos.d, epoch_nanos.ms,
                                                 epoch_nanos.sub - offset)) :
                       epoch_nanos \in {F64Round(mul_add)}} : TRUE

\* |to_epoch_days()| above this is outside the limits
MAX_EPOCH_DAYS == 100000001

\* NS_MAX_INSTANT is 10^8 days of nanoseconds, NS_MIN_INSTANT its negation
NS_MAX_INSTANT_DAYS == 100000000

\* max > ns, max being NS_MAX_INSTANT + NS_PER_DAY
NanosBelowMax(v) == NanosLess(v, EpochNanoseconds(NS_MAX_INSTANT_DAYS + 1, 0, 0))

\* min < ns, min being NS_MIN_INSTANT - NS_PER_DAY
NanosAboveMin(v) == NanosLess(EpochNanoseconds(-(NS_MAX_INSTANT_DAYS + 1), 0, 0), v)

\* mutant of iso_dt_within_valid_limits: >= in place of > on the epoch-day limit
iso_dt_within_valid_limits_OffByOne(date, time) ==
    IF Abs(iso_date_to_epoch_days(date.year, date.month - 1, date.day)) >= MAX_EPOCH_DAYS
    THEN FALSE
    ELSE \E ns \in {utc_epoch_nanos(date, time, 0)} : NanosAboveMin(ns) /\ NanosBelowMax(ns)

iso_dt_within_valid_limits(date, time) ==
    IF Abs(iso_date_to_epoch_days(date.year, date.month - 1, date.day)) > MAX_EPOCH_DAYS
    THEN FALSE
    ELSE \E ns \in {utc_epoch_nanos(date, time, 0)} : NanosAboveMin(ns) /\ NanosBelowMax(ns)

(***************************************************************************)
(* IsoDate operations.                                                     *)
(***************************************************************************)
\* mutant of RegulateIsoDate: the month length is taken of the unclamped month
RegulateIsoDate_UnclampedMonthLength(year, month, day, overflow) ==
    IF overflow = "Constrain"
    THEN LET m == Clamp(month, 1, 12)
             days_in_month == iso_days_in_month(year, month)
             d == Clamp(day, 1, days_in_month)
         IN  Ok(IsoDate(year, m, d))
    ELSE IF ~is_valid_date(year, month, day) THEN RangeError
         ELSE Ok(IsoDate(year, month, day))

\* the regulated date of IsoDate::new, before the limit check; RangeError on Reject
RegulateIsoDate(year, month, day, overflow) ==
    IF overflow = "Constrain"
    THEN LET m == Clamp(month, 1, 12)
             days_in_month == iso_days_in_month(year, m)
             d == Clamp(day, 1, days_in_month)
         IN  Ok(IsoDate(year, m, d))
    ELSE IF ~is_valid_date(year, month, day) THEN RangeError
         ELSE Ok(IsoDate(year, month, day))

IsoDate_new(year, month, day, overflow) ==
    LET id == RegulateIsoDate(year, month, day, overflow)
    IN  IF ~id.ok THEN RangeError
        ELSE IF ~iso_dt_within_valid_limits(id.val, IsoTime_noon) THEN RangeError
        ELSE id

\* the date of an epoch day (the second half of IsoDate::balance)
epoch_days_to_date(epoch_days) ==
    LET ms == epoch_days_to_epoch_ms(epoch_days, 0)
    IN  IsoDate(epoch_time_to_epoch_year(ms),
                epoch_time_to_month_in_year(ms) + 1,
                epoch_time_to_date(ms))

\* mutant of IsoDate_balance: the 1-based month is passed on as it is
IsoDate_balance_MonthOneBased(year, month, day) ==
    epoch_days_to_date(iso_date_to_epoch_days(year, month, day))

IsoDate_balance(year, month, day) ==
    epoch_days_to_date(iso_date_to_epoch_days(year, month - 1, day))


(***************************************************************************)
(* IsoDate::diff_iso_date.                                                 *)
(***************************************************************************)
DateDuration(y, m, w, d) == [years |-> y, months |-> m, weeks |-> w, days |-> d]

\* DateDuration::new: the duration type's own validation, all non-zero
\* components of one sign
DateDuration_new(y, m, w, d) ==
    IF (y > 0 \/ m > 0 \/ w > 0 \/ d > 0) /\ (y < 0 \/ m < 0 \/ w < 0 \/ d < 0)
    THEN RangeError
    ELSE Ok(DateDuration(y, m, w, d))

\* mutant of CandidateYears: the candidate is lowered by one whatever the sign
CandidateYears_MinusOne(self, other, sign) ==
    LET candidate_years == other.year - self.year
    IN  IF candidate_years # 0 THEN candidate_years - 1 ELSE candidate_years

\* the first candidate of the year loop: other.year - self.year, one step toward zero
CandidateYears(self, other, sign) ==
    LET candidate_years == other.year - self.year
    IN  IF candidate_years # 0 THEN candidate_years - sign ELSE candidate_years

\* the year loop: the last candidate whose tentative date does not surpass other
RECURSIVE YearLoop(_, _, _, _, _)
YearLoop(self, other, sign, candidate_years, years) ==
    IF iso_date_surpasses(IsoDate(self.year + candidate_years, self.month, self.day),
                          other, sign)
    THEN years
    ELSE YearLoop(self, other, sign, candidate_years + sign, candidate_years)

\* mutant of MonthTentative: the day is clamped to the month length
MonthTentative_Clamped(intermediate, day) ==
    IsoDate(intermediate[1], intermediate[2],
            Clamp(day, 1, iso_days_in_month(intermediate[1], intermediate[2])))

\* the tentative date of the month loop: the day of self, not clamped
MonthTentative(intermediate, day) == IsoDate(intermediate[1], intermediate[2], day)

RECURSIVE MonthLoop(_, _, _, _, _, _)
MonthLoop(self, other, sign, candidate_months, months, intermediate) ==
    IF iso_date_surpasses(MonthTentative(intermediate, self.day), other, sign)
    THEN months
    ELSE MonthLoop(self, other, sign, candidate_months + sign, candidate_months,
                   balance_iso_year_month(intermediate[1], intermediate[2] + sign))

\* (weeks, days) of the remaining day count
WeekSplit(days, largest_unit) ==
    IF largest_unit = "Week" THEN <<TruncDiv(days, 7), RemEuclid(days, 7)>>
    ELSE <<0, days>>

\* steps 9 to 18 of diff_iso_date: the days left after the years and months
DiffRemainder(self, other, largest_unit, years, months) ==
    LET intermediate == balance_iso_year_month(self.year + years, self.month + months)
        constrained == IsoDate_new(intermediate[1], intermediate[2], self.day,
                                   "Constrain")
    IN  IF ~constrained.ok THEN RangeError
        ELSE
        LET days == iso_date_to_epoch_days(other.year, other.month - 1, other.day)
                      - iso_date_to_epoch_days(constrained.val.year,
                                               constrained.val.month - 1,
                                               constrained.val.day)
            wd == WeekSplit(days, largest_unit)
        IN  DateDuration_new(years, months, wd[1], wd[2])

IsoDate_diff_iso_date(self, other, largest_unit) ==
    LET sign == -IsoDate_cmp(self, other)
    IN  IF sign = 0 THEN Ok(DateDuration(0, 0, 0, 0))
        ELSE
        LET years == IF largest_unit = "Year"
                     THEN YearLoop(self, other, sign,
                                   CandidateYears(self, other, sign), 0)
                     ELSE 0
            months == IF largest_unit = "Year" \/ largest_unit = "Month"
                      THEN MonthLoop(self, other, sign, sign, 0,
                                     balance_iso_year_month(self.year + years,
                                                            self.month + sign))
                      ELSE 0
        IN  DiffRemainder(self, other, largest_unit, years, months)

(***************************************************************************)
(* IsoDate::add_date_duration.                                             *)
(***************************************************************************)
\* mutant of IsoDate_add_date_duration: the days are added to the day of self,
\* not to the day of the regulated intermediate date
IsoDate_add_date_duration_SelfDay(self, duration, overflow) ==
    LET ym == balance_iso_year_month(self.year + duration.years,
                                     self.month + duration.months)
        intermediate == IsoDate_new(ym[1], ym[2], self.day, overflow)
    IN  IF ~intermediate.ok THEN RangeError
        ELSE LET additional_days == duration.days + (duration.weeks * 7)
                 d == self.day + additional_days
             IN  Ok(IsoDate_balance(intermediate.val.year, intermediate.val.month, d))

\* mutant of IsoDate_add_date_duration: the weeks are added as days
IsoDate_add_date_duration_WeeksAsDays(self, duration, overflow) ==
    LET ym == balance_iso_year_month(self.year + duration.years,
                                     self.month + duration.months)
        intermediate == IsoDate_new(ym[1], ym[2], self.day, overflow)
    IN  IF ~intermediate.ok THEN RangeError
        ELSE LET additional_days == duration.days + duration.weeks
                 d == intermediate.val.day + additional_days
             IN  Ok(IsoDate_balance(intermediate.val.year, intermediate.val.month, d))

IsoDate_add_date_duration(self, duration, overflow) ==
    LET ym == balance_iso_year_month(self.year + duration.years,
                                     self.month + duration.months)
        intermediate == IsoDate_new(ym[1], ym[2], self.day, overflow)
    IN  IF ~intermediate.ok THEN RangeError
        ELSE LET additional_days == duration.days + (duration.weeks * 7)
                 d == intermediate.val.day + additional_days
             IN  Ok(IsoDate_balance(intermediate.val.year, intermediate.val.month, d))

(***************************************************************************)
(* IsoTime::balance.                                                       *)
(***************************************************************************)
\* mutant of div_mod: truncating division and its remainder
div_mod_Truncating(dividend, divisor) ==
    <<TruncDiv(dividend, divisor), dividend - divisor * TruncDiv(dividend, divisor)>>

\* (dividend.div_euclid(divisor), dividend.rem_euclid(divisor)), divisor > 0
div_mod(dividend, divisor) == <<DivEuclid(dividend, divisor), RemEuclid(dividend, divisor)>>

\* mutant of IsoTime_balance: the radices of minute and hour are exchanged
IsoTime_balance_SwappedRadix(hour, minute, second, millisecond, microsecond, nanosecond) ==
    LET qn == div_mod(nanosecond, 1000)
        us1 == microsecond + qn[1]
        qus == div_mod(us1, 1000)
        ms1 == millisecond + qus[1]
        qms == div_mod(ms1, 1000)
        s1 == second + qms[1]
        qs == div_mod(s1, 60)
        m1 == minute + qs[1]
        qm == div_mod(m1, 24)
        h1 == hour + qm[1]
        qh == div_mod(h1, 60)
    IN  [days |-> qh[1],
         time |-> IsoTime(qh[2], qm[2], qs[2], qms[2], qus[2], qn[2])]

\* returns [days, time]
IsoTime_balance(hour, minute, second, millisecond, microsecond, nanosecond) ==
    LET qn == div_mod(nanosecond, 1000)
        us1 == microsecond + qn[1]
        qus == div_mod(us1, 1000)
        ms1 == millisecond + qus[1]
        qms == div_mod(ms1, 1000)
        s1 == second + qms[1]
        qs == div_mod(s1, 60)
        m1 == minute + qs[1]
        qm == div_mod(m1, 60)
        h1 == hour + qm[1]
        qh == div_mod(h1, 24)
    IN  [days |-> qh[1],
         time |-> IsoTime(qh[2], qm[2], qs[2], qms[2], qus[2], qn[2])]

IsoTime_default == IsoTime(0, 0, 0, 0, 0, 0)

(***************************************************************************)
(* IsoTime::round.  A nanosecond quantity is [s, n].                       *)
(***************************************************************************)
NANOS_PER_SEC == 1000000000

Nanos(s, n) == [s |-> s + (n \div NANOS_PER_SEC), n |-> n % NANOS_PER_SEC]

NanosLt(a, b) == a.s < b.s \/ (a.s = b.s /\ a.n < b.n)

NanosSub(a, b) == Nanos(a.s - b.s, a.n - b.n)

NanosDouble(a) == Nanos(2 * a.s, 2 * a.n)

\* width * k for a width whose n is at most 10^6 (k small enough for w.n * k)
NanosScale(w, k) == Nanos(w.s * k, w.n * k)

\* [q, r] with a = q * d + r, 0 <= r < d, for d > 0
RECURSIVE NanosDivMod(_, _)
NanosDivMod(a, d) ==
    IF NanosLt(a, d) THEN [q |-> 0, r |-> a]
    ELSE LET h == NanosDivMod(a, NanosDouble(d))
         IN  IF NanosLt(h.r, d) THEN [q |-> 2 * h.q, r |-> h.r]
             ELSE [q |-> 2 * h.q + 1, r |-> NanosSub(h.r, d)]

\* TemporalUnit::as_nanoseconds, None for a unit without a fixed width
UnitAsNanoseconds(unit) ==
    CASE unit = "Hour" -> Ok(Nanos(3600, 0))
      [] unit = "Minute" -> Ok(Nanos(60, 0))
      [] unit = "Second" -> Ok(Nanos(1, 0))
      [] unit = "Millisecond" -> Ok(Nanos(0, 1000000))
      [] unit = "Microsecond" -> Ok(Nanos(0, 1000))
      [] unit = "Nanosecond" -> Ok(Nanos(0, 1))
      [] OTHER -> RangeError

\* NS_PER_DAY
NsPerDay == Nanos(86400, 0)

RoundingModes ==
    {"Ceil", "Floor", "Expand", "Trunc",
     "HalfCeil", "HalfFloor", "HalfExpand", "HalfTrunc", "HalfEven"}

\* IncrementRounder::from_potentially_negative_parts(quantity, step).round(mode) for
\* a quantity >= 0, as the number of steps in the rounded value
RoundedSteps(quantity, step, mode) ==
    LET qr == NanosDivMod(quantity, step)
        twice == NanosDouble(qr.r)
        exact == qr.r = Nanos(0, 0)
        above == NanosLt(step, twice)
        tie == twice = step
        up == CASE mode \in {"Ceil", "Expand"} -> ~exact
                [] mode \in {"Floor", "Trunc"} -> FALSE
                [] mode \in {"HalfCeil", "HalfExpand"} -> above \/ tie
                [] mode \in {"HalfFloor", "HalfTrunc"} -> above
                [] OTHER -> above \/ (tie /\ qr.q % 2 = 1)
    IN  IF up THEN qr.q + 1 ELSE qr.q

\* the quantity of step 1 of IsoTime::round
RoundQuantity(t, unit) ==
    LET subsec == t.nanosecond + t.microsecond * 1000 + t.millisecond * 1000000
    IN  CASE unit \in {"Hour", "Day"} ->
               Nanos(t.second + t.minute * 60 + t.hour * 60 * 60, subsec)
          [] unit = "Minute" -> Nanos(t.second, subsec + t.minute * 60)
          [] unit = "Second" -> Nanos(t.second, subsec)
          [] unit = "Millisecond" -> Nanos(0, subsec)
          [] unit = "Microsecond" -> Nanos(0, t.nanosecond + 1000 * t.microsecond)
          [] OTHER -> Nanos(0, t.nanosecond)

RoundUnits ==
    {"Day", "Hour", "Minute", "Second", "Millisecond", "Microsecond", "Nanosecond"}

\* Option<u64> day_length_ns
Some(v) == [some |-> TRUE, val |-> v]

None == [some |-> FALSE, val |-> Nanos(0, 0)]

\* the value handed to NonZeroU64::new_unchecked
RoundUnitWidth(unit, day_length_ns) ==
    IF unit = "Day"
    THEN IF day_length_ns.some THEN day_length_ns.val ELSE NsPerDay
    ELSE UnitAsNanoseconds(unit).val

\* mutant of IsoTime_round: mode and increment are ignored, the count is the
\* quantity divided by ns_per_unit, rounded down
IsoTime_round_Floor(t, increment, unit, mode, day_length_ns) ==
    IF unit \notin RoundUnits THEN RangeError
    ELSE
    LET quantity == RoundQuantity(t, unit)
        ns_per_unit == RoundUnitWidth(unit, day_length_ns)
        result == NanosDivMod(quantity, ns_per_unit).q
    IN  Ok(CASE unit = "Day" -> [days |-> result, time |-> IsoTime_default]
             [] unit = "Hour" -> IsoTime_balance(result, 0, 0, 0, 0, 0)
             [] unit = "Minute" -> IsoTime_balance(t.hour, result, 0, 0, 0, 0)
             [] unit = "Second" -> IsoTime_balance(t.hour, t.minute, result, 0, 0, 0)
             [] unit = "Millisecond" ->
                  IsoTime_balance(t.hour, t.minute, t.second, result, 0, 0)
             [] unit = "Microsecond" ->
                  IsoTime_balance(t.hour, t.minute, t.second, t.millisecond, result, 0)
             [] OTHER ->
                  IsoTime_balance(t.hour, t.minute, t.second, t.millisecond,
                                  t.microsecond, result))

\* IsoTime::round for a non-zero ns_per_unit; the product ns_per_unit * increment
\* stays below 2^64 for the modelled day lengths and increments, so checked_mul
\* returns Some
IsoTime_round(t, increment, unit, mode, day_length_ns) ==
    IF unit \notin RoundUnits THEN RangeError
    ELSE
    LET quantity == RoundQuantity(t, unit)
        ns_per_unit == RoundUnitWidth(unit, day_length_ns)
        step == NanosScale(ns_per_unit, increment)
        \* round(mode) / ns_per_unit: the rounded value is steps * increment units
        result == RoundedSteps(quantity, step, mode) * increment
    IN  Ok(CASE unit = "Day" -> [days |-> result, time |-> IsoTime_default]
             [] unit = "Hour" -> IsoTime_balance(result, 0, 0, 0, 0, 0)
             [] unit = "Minute" -> IsoTime_balance(t.hour, result, 0, 0, 0, 0)
             [] unit = "Second" -> IsoTime_balance(t.hour, t.minute, result, 0, 0, 0)
             [] unit = "Millisecond" ->
                  IsoTime_balance(t.hour, t.minute, t.second, result, 0, 0)
             [] unit = "Microsecond" ->
                  IsoTime_balance(t.hour, t.minute, t.second, t.millisecond, result, 0)
             [] OTHER ->
                  IsoTime_balance(t.hour, t.minute, t.second, t.millisecond,
                                  t.microsecond, result))

\* the error of temporal_unwrap on None
AssertError == [ok |-> FALSE, val |-> "AssertError"]

\* the call does not return: a panic or an abort
Panic == [ok |-> FALSE, val |-> "panic"]

\* NonZeroU64::new_unchecked(0) is undefined behaviour.  Builds differ in what
\* follows: the precondition check of a debug build aborts; the zero NonZeroU64 of
\* a release build is the bit pattern of None, so that temporal_unwrap may return
\* its error; the division by the zero width may panic; or the call returns a
\* value computed from the zero.
RoundUndefinedOutcomes ==
    {Panic, AssertError}
        \cup {Ok([days |-> d, time |-> IsoTime_default]) : d \in {0, 1}}

\* the outcomes of IsoTime::round
IsoTime_round_outcomes(t, increment, unit, mode, day_length_ns) ==
    IF unit \in RoundUnits /\ RoundUnitWidth(unit, day_length_ns) = Nanos(0, 0)
    THEN RoundUndefinedOutcomes
    ELSE {IsoTime_round(t, increment, unit, mode, day_length_ns)}

(***************************************************************************)
(* IsoTime::add and IsoDateTime::add_date_duration.                        *)
(***************************************************************************)
\* NormalizedTimeDuration: whole seconds and sub-second nanoseconds of one sign
NormalizedTimeDuration(seconds, subseconds) ==
    [seconds |-> seconds, subseconds |-> subseconds]

IsoTime_add(t, norm) ==
    LET seconds == t.second + norm.seconds
        nanos == t.nanosecond + norm.subseconds
    IN  IsoTime_balance(t.hour, t.minute, seconds, t.millisecond, t.microsecond, nanos)

IsoDateTime(date, time) == [date |-> date, time |-> time]

IsoDateTime_is_within_limits(dt) == iso_dt_within_valid_limits(dt.date, dt.time)

\* Duration::new with a zero time part: the date part is checked as by
\* DateDuration::new
Duration_new(years, months, weeks, days) == DateDuration_new(years, months, weeks, days)

\* Date::add_date with the ISO calendar: the calendar's date-add is
\* IsoDate::add_date_duration, an unset overflow being Constrain
Date_add_date(iso, duration, overflow) ==
    IsoDate_add_date_duration(iso, duration,
                              IF overflow = "Unset" THEN "Constrain" ELSE overflow)

IsoDateTime_add_date_duration(self, date_duration, norm, overflow) ==
    LET t_result == IsoTime_add(self.time, norm)
        duration == Duration_new(date_duration.years, date_duration.months,
                                 date_duration.weeks,
                                 date_duration.days + t_result.days)
    IN  IF ~duration.ok THEN duration
        ELSE LET added_date == Date_add_date(self.date, duration.val, overflow)
             IN  IF ~added_date.ok THEN added_date
                 ELSE Ok(IsoDateTime(added_date.val, t_result.time))

(***************************************************************************)
(* IsoDateTime::balance and IsoDateTime::from_epoch_nanos.                 *)
(***************************************************************************)
IsoDateTime_balance(year, month, day, hour, minute, second, millisecond, microsecond, nanosecond) ==
    LET t == IsoTime_balance(hour, minute, second, millisecond, microsecond, nanosecond)
        date == IsoDate_balance(year, month, day + t.days)
    IN  IsoDateTime(date, t.time)

\* the f64 operator % on integral values: the remainder of the truncating
\* division, with the sign of a
F64Rem(a, b) == a - b * TruncDiv(a, b)

\* the BigInt ms * 10^6 + sub, 0 <= sub < 10^6; below 2^53 in magnitude for a
\* 32-bit ms, so that to_f64 is exact
EpochNanos(ms, sub) == [ms |-> ms, sub |-> sub]

\* mathematical_nanos % 1_000_000f64, of the sign of mathematical_nanos
RemainderNanos(nanos) ==
    IF nanos.ms < 0 /\ nanos.sub # 0 THEN nanos.sub - 1000000 ELSE nanos.sub

\* ((mathematical_nanos - remainder_nanos) / 1_000_000f64).floor()
EpochMillis(nanos) == nanos.ms + ((nanos.sub - RemainderNanos(nanos)) \div 1000000)

IsoDateTime_from_epoch_nanos(nanos, offset) ==
    LET remainder_nanos == RemainderNanos(nanos)
        epoch_millis == EpochMillis(nanos)
        t == EpochTime(0, epoch_millis)
        year == epoch_time_to_epoch_year(t)
        month == epoch_time_to_month_in_year(t) + 1
        day == epoch_time_to_date(t)
        hour == F64Rem(epoch_millis \div 3600000, 24)
        minute == F64Rem(epoch_millis \div 60000, 60)
        second == F64Rem(epoch_millis \div 1000, 60)
        millis == F64Rem(F64Rem(epoch_millis, 1000), 1000)
        micros == remainder_nanos \div 1000
        ns == F64Rem(remainder_nanos, 1000)
    IN  Ok(IsoDateTime_balance(year, month, day, hour, minute, second, millis, micros,
                               ns + offset))

(***************************************************************************)
(* The calls the model makes.                                              *)
(***************************************************************************)
Years == {-271821, -1, 1900, 1969, 1970, 2020, 2021, 275760}

Overflows == {"Constrain", "Reject"}

NewCalls ==
    [fn : {"IsoDate::new"}, year : Years,
     month : (1 - MonthSlack)..(12 + MonthSlack),
     day : (1 - DaySlack)..(31 + DaySlack), overflow : Overflows]

BalanceCalls ==
    [fn : {"IsoDate::balance"}, year : Years,
     month : (1 - MonthCarry)..(12 + MonthCarry),
     day : (1 - DayCarry)..(31 + DayCarry)]

EpochDaysCalls ==
    [fn : {"iso_date_to_epoch_days"}, year : Years,
     month : (0 - MonthCarry)..(11 + MonthCarry),
     day : (1 - DayCarry)..(31 + DayCarry)]

\* dates of the difference calls, all calendar-valid
DiffYears == {1968, 1969, 1970, 1971, 2020, 2021}

DiffDates ==
    {d \in [year : DiffYears, month : {1, 2, 3, 12}, day : {1, 28, 29, 30, 31}] :
        is_valid_date(d.year, d.month, d.day)}

DiffCalls ==
    {c \in [fn : {"IsoDate::diff_iso_date"}, a : DiffDates, b : DiffDates,
            unit : {"Year", "Month", "Week", "Day"}] :
        Abs(c.a.year - c.b.year) <= MaxYearSpan}

\* date durations of the addition calls: up to AddMonths months either way
AddDurations ==
    [years : {-1, 0, 1}, months : (0 - AddMonths)..AddMonths, weeks : {-1, 0, 1},
     days : {-31, -1, 0, 1, 31}]

AddDates == {d \in DiffDates : d.year \in {1969, 1970, 2020, 2021}}

AddCalls ==
    [fn : {"IsoDate::add_date_duration"}, self : AddDates, duration : AddDurations,
     overflow : Overflows]

\* values of a time field of radix u: multiples of u up to CarryN, and -1, u - 1
FieldValues(u) == {k * u : k \in (0 - CarryN)..CarryN} \cup {-1, u - 1}

\* valid times, for balance and round
ValidTimes ==
    [hour : {0, 12, 23}, minute : {0, 34, 59}, second : {0, 30, 56},
     millisecond : {0, 500, 700}, microsecond : {0, 999}, nanosecond : {0, 999}]

BalanceTimeCalls ==
    [fn : {"IsoTime::balance"},
     t : [hour : FieldValues(24), minute : FieldValues(60), second : FieldValues(60),
          millisecond : FieldValues(1000), microsecond : FieldValues(1000),
          nanosecond : FieldValues(1000)]
         \cup ValidTimes \cup {IsoTime(25, 0, 0, 0, 0, 0)}]

\* caller-supplied day lengths: none, zero, 12, 24 and 25 hours
DayLengths == {None} \cup {Some(Nanos(3600 * h, 0)) : h \in {0, 12, 24, 25}}

RoundIncrements == {1, 4, 15, 30}

RoundCalls ==
    [fn : {"IsoTime::round"}, t : ValidTimes, increment : RoundIncrements,
     unit : (RoundUnits \ {"Day"}) \cup {"Year"}, mode : RoundingModes,
     day_length_ns : {None}]
    \cup
    [fn : {"IsoTime::round"}, t : ValidTimes, increment : RoundIncrements,
     unit : {"Day"}, mode : RoundingModes, day_length_ns : DayLengths]

\* date-times of the date-time addition calls, within the limits: the first and
\* last days of the range, and ordinary days
DateTimeAddSelves ==
    {dt \in [date : {IsoDate(-271821, 4, 19), IsoDate(-271821, 4, 20),
                     IsoDate(1970, 1, 1), IsoDate(2021, 1, 31),
                     IsoDate(275760, 9, 13)},
             time : {IsoTime(0, 0, 0, 0, 0, 0), IsoTime(12, 0, 0, 0, 0, 0),
                     IsoTime(23, 59, 59, 999, 999, 999)}] :
        IsoDateTime_is_within_limits(dt)}

DateTimeAddNorms ==
    {n \in [seconds : {-43200, 0, 1, 86400}, subseconds : {-1, 0, 1}] :
        n.seconds * n.subseconds >= 0}

DateTimeAddCalls ==
    [fn : {"IsoDateTime::add_date_duration"}, self : DateTimeAddSelves,
     date_duration : [years : {0}, months : {0, 1}, weeks : {0}, days : {-1, 0, 1}],
     norm : DateTimeAddNorms, overflow : Overflows \cup {"Unset"}]

\* instants within 19 days of the epoch, before and after it, and offsets of up
\* to a second
FromEpochNanosCalls ==
    [fn : {"IsoDateTime::from_epoch_nanos"},
     nanos : [ms : {-MS_PER_DAY - 1, -MS_PER_DAY, -3661001, -1, 0, 1, 3661001,
                    MS_PER_DAY - 1, MS_PER_DAY, 1600000000},
              sub : {0, 1, 999, 1000, 500000, 999999}],
     offset : {-1500, -1, 0, 1, 1000000000}]

Calls == NewCalls \cup BalanceCalls \cup EpochDaysCalls \cup DiffCalls
            \cup BalanceTimeCalls \cup RoundCalls \cup AddCalls
            \cup DateTimeAddCalls \cup FromEpochNanosCalls

Init == /\ call \in Calls
        /\ pc = "ready"
        /\ ret = Pending

CallNew ==
    /\ pc = "ready" /\ call.fn = "IsoDate::new"
    /\ ret' = IsoDate_new(call.year, call.month, call.day, call.overflow)
    /\ pc' = "done"
    /\ UNCHANGED call

CallBalance ==
    /\ pc = "ready" /\ call.fn = "IsoDate::balance"
    /\ ret' = Ok(IsoDate_balance(call.year, call.month, call.day))
    /\ pc' = "done"
    /\ UNCHANGED call

CallEpochDays ==
    /\ pc = "ready" /\ call.fn = "iso_date_to_epoch_days"
    /\ ret' = Ok(iso_date_to_epoch_days(call.year, call.month, call.day))
    /\ pc' = "done"
    /\ UNCHANGED call

CallDiff ==
    /\ pc = "ready" /\ call.fn = "IsoDate::diff_iso_date"
    /\ ret' = IsoDate_diff_iso_date(call.a, call.b, call.unit)
    /\ pc' = "done"
    /\ UNCHANGED call

CallAdd ==
    /\ pc = "ready" /\ call.fn = "IsoDate::add_date_duration"
    /\ ret' = IsoDate_add_date_duration(call.self, call.duration, call.overflow)
    /\ pc' = "done"
    /\ UNCHANGED call

CallBalanceTime ==
    /\ pc = "ready" /\ call.fn = "IsoTime::balance"
    /\ ret' = Ok(IsoTime_balance(call.t.hour, call.t.minute, call.t.second,
                                 call.t.millisecond, call.t.microsecond,
                                 call.t.nanosecond))
    /\ pc' = "done"
    /\ UNCHANGED call

CallRound ==
    /\ pc = "ready" /\ call.fn = "IsoTime::round"
    /\ ret' \in IsoTime_round_outcomes(call.t, call.increment, call.unit, call.mode,
                                      call.day_length_ns)
    /\ pc' = "done"
    /\ UNCHANGED call

CallDateTimeAdd ==
    /\ pc = "ready" /\ call.fn = "IsoDateTime::add_date_duration"
    /\ ret' = IsoDateTime_add_date_duration(call.self, call.date_duration, call.norm,
                                            call.overflow)
    /\ pc' = "done"
    /\ UNCHANGED call

CallFromEpochNanos ==
    /\ pc = "ready" /\ call.fn = "IsoDateTime::from_epoch_nanos"
    /\ ret' = IsoDateTime_from_epoch_nanos(call.nanos, call.offset)
    /\ pc' = "done"
    /\ UNCHANGED call

Next == \/ CallNew
        \/ CallBalance
        \/ CallEpochDays
        \/ CallDiff
        \/ CallBalanceTime
        \/ CallRound
        \/ CallAdd
        \/ CallDateTimeAdd
        \/ CallFromEpochNanos

Spec == Init /\ [][Next]_vars

Done(fn) == pc = "done" /\ call.fn = fn

(***************************************************************************)
(* IsoDate::diff_iso_date step by step: pc is the position in the function *)
(* and ret holds its locals, with the count of passes of each loop body.   *)
(***************************************************************************)
DiffLocals(sign, years, candidate_years, months, candidate_months, intermediate, year_passes, month_passes, result) ==
    [sign |-> sign, years |-> years, candidate_years |-> candidate_years,
     months |-> months, candidate_months |-> candidate_months,
     intermediate |-> intermediate, year_passes |-> year_passes,
     month_passes |-> month_passes, result |-> result]

\* the tentative date of the year loop
YearTentative(self, candidate_years) ==
    IsoDate(self.year + candidate_years, self.month, self.day)

\* no call has been made
NoCall == [fn |-> "none"]

LoopInit == /\ call = NoCall
            /\ pc = "idle"
            /\ ret = Pending

\* the call with its arguments, and steps 3 to 6.a: the sign, the early return
\* for equal dates, the first candidate
DiffEnter ==
    /\ pc = "idle"
    /\ call' \in DiffCalls
    /\ LET sign == -IsoDate_cmp(call'.a, call'.b)
       IN  IF sign = 0
           THEN /\ pc' = "done"
                /\ ret' = DiffLocals(0, 0, 0, 0, 0, <<0, 0>>, 0, 0,
                                     Ok(DateDuration(0, 0, 0, 0)))
           ELSE /\ pc' = "year_loop"
                /\ ret' = DiffLocals(sign, 0, CandidateYears(call'.a, call'.b, sign),
                                     0, 0, <<0, 0>>, 0, 0, Pending)

\* one pass of the body of the year loop
YearStep ==
    /\ pc = "year_loop" /\ call.unit = "Year"
    /\ ~iso_date_surpasses(YearTentative(call.a, ret.candidate_years), call.b, ret.sign)
    /\ ret' = [ret EXCEPT !.years = ret.candidate_years,
                          !.candidate_years = ret.candidate_years + ret.sign,
                          !.year_passes = ret.year_passes + 1]
    /\ UNCHANGED <<pc, call>>

\* the year loop is skipped or left; steps 8.a and 8.b
YearExit ==
    /\ pc = "year_loop"
    /\ \/ call.unit # "Year"
       \/ iso_date_surpasses(YearTentative(call.a, ret.candidate_years), call.b, ret.sign)
    /\ ret' = [ret EXCEPT !.candidate_months = ret.sign,
                          !.intermediate =
                              balance_iso_year_month(call.a.year + ret.years,
                                                     call.a.month + ret.sign)]
    /\ pc' = "month_loop"
    /\ UNCHANGED call

\* one pass of the body of the month loop
MonthStep ==
    /\ pc = "month_loop" /\ call.unit \in {"Year", "Month"}
    /\ ~iso_date_surpasses(MonthTentative(ret.intermediate, call.a.day), call.b, ret.sign)
    /\ ret' = [ret EXCEPT !.months = ret.candidate_months,
                          !.candidate_months = ret.candidate_months + ret.sign,
                          !.intermediate =
                              balance_iso_year_month(ret.intermediate[1],
                                                     ret.intermediate[2] + ret.sign),
                          !.month_passes = ret.month_passes + 1]
    /\ UNCHANGED <<pc, call>>

\* the month loop is skipped or left
MonthExit ==
    /\ pc = "month_loop"
    /\ \/ call.unit \notin {"Year", "Month"}
       \/ iso_date_surpasses(MonthTentative(ret.intermediate, call.a.day), call.b, ret.sign)
    /\ pc' = "remainder"
    /\ UNCHANGED <<call, ret>>

\* steps 9 to 18 and the return
DiffReturn ==
    /\ pc = "remainder"
    /\ ret' = [ret EXCEPT !.result =
                              DiffRemainder(call.a, call.b, call.unit, ret.years,
                                            ret.months)]
    /\ pc' = "done"
    /\ UNCHANGED call

\* the steps up to the end of the month loop
LoopSteps == DiffEnter \/ YearStep \/ YearExit \/ MonthStep \/ MonthExit

LoopNext == \/ DiffEnter
            \/ YearStep
            \/ YearExit
            \/ MonthStep
            \/ MonthExit
            \/ DiffReturn

\* a function that has been called takes its next step: weak fairness of the
\* steps up to the end of the month loop (what follows the loops is straight-line)
LoopSpec == LoopInit /\ [][LoopNext]_vars /\ WF_vars(LoopSteps)

(***************************************************************************)
(* Claims about IsoDate::new, IsoDate::balance and iso_date_to_epoch_days. *)
(***************************************************************************)
\* the regulated date of the finished IsoDate::new call
NewRegulated == RegulateIsoDate(call.year, call.month, call.day, call.overflow)

NewEpochDays == IsoDate_to_epoch_days(NewRegulated.val)

\* C1 as stated: for a calendar-valid date, IsoDate::new succeeds when
\* |to_epoch_days()| = 100_000_001, for the positive and the negative day alike,
\* and fails when |to_epoch_days()| = 100_000_002.
C1_RangeBoundaryBothSigns ==
    (Done("IsoDate::new") /\ NewRegulated.ok) =>
        /\ (Abs(NewEpochDays) = 100000001 => ret.ok)
        /\ (Abs(NewEpochDays) = 100000002 => ~ret.ok)

\* C1 amended: IsoDate::new succeeds (returning the regulated date) when
\* to_epoch_days() is -100_000_001 or +100_000_000, and fails with a RangeError
\* when it is +100_000_001 (noon of that day is past max-instant + 1 day) or when
\* |to_epoch_days()| = 100_000_002.
C1_RangeBoundary ==
    (Done("IsoDate::new") /\ NewRegulated.ok) =>
        /\ (NewEpochDays \in {-100000001, 100000000} =>
                ret.ok /\ ret.val = NewRegulated.val)
        /\ (NewEpochDays \in {100000001, 100000002, -100000002} =>
                ~ret.ok /\ ret.val = "RangeError")

C1_Witness ==
    /\ Done("IsoDate::new") /\ NewRegulated.ok
    /\ NewEpochDays = -100000001
    /\ ret.ok

\* C4: for every valid IsoDate d (accepted by the validating constructor),
\* IsoDate::balance(d.year, d.month, d.day) = d, and the date of the epoch day
\* iso_date_to_epoch_days(d.year, d.month - 1, d.day) is d.
C4_EpochDayRoundTrip ==
    /\ (Done("IsoDate::balance")
            /\ IsoDate_new(call.year, call.month, call.day, "Reject").ok) =>
          ret.val = IsoDate(call.year, call.month, call.day)
    /\ (Done("iso_date_to_epoch_days")
            /\ IsoDate_new(call.year, call.month + 1, call.day, "Reject").ok) =>
          epoch_days_to_date(ret.val) = IsoDate(call.year, call.month + 1, call.day)

C4_Witness ==
    /\ Done("IsoDate::balance")
    /\ call.year = 1969 /\ call.month = 12 /\ call.day = 31
    /\ ret.val = IsoDate(1969, 12, 31)

\* epoch days within which noon is inside the instant window
InLimitDays(ed) == -100000001 <= ed /\ ed <= 100000000

\* C7: with Constrain, month is clamped to 1..12, then day to
\* 1..days_in_month(year, clamped month); IsoDate::new(y, 13, 40, Constrain) is
\* {y, 12, days_in_month(y, 12)} for every year whose December 31st is within the
\* range limit; the call fails only when the clamped date is outside the limit.
C7_ConstrainClamp ==
    (Done("IsoDate::new") /\ call.overflow = "Constrain") =>
        LET m == IF call.month < 1 THEN 1 ELSE IF call.month > 12 THEN 12 ELSE call.month
            dim == iso_days_in_month(call.year, m)
            d == IF call.day < 1 THEN 1 ELSE IF call.day > dim THEN dim ELSE call.day
            clamped == IsoDate(call.year, m, d)
        IN  /\ ret.ok => ret.val = clamped
            /\ ~ret.ok => ~InLimitDays(IsoDate_to_epoch_days(clamped))
            /\ (call.month = 13 /\ call.day = 40
                    /\ InLimitDays(IsoDate_to_epoch_days(IsoDate(call.year, 12, 31)))) =>
                  (ret.ok /\ ret.val = IsoDate(call.year, 12,
                                               iso_days_in_month(call.year, 12)))

C7_Witness ==
    /\ Done("IsoDate::new") /\ call.overflow = "Constrain"
    /\ call.year = 2021 /\ call.month = 13 /\ call.day = 40
    /\ ret.ok /\ ret.val = IsoDate(2021, 12, 31)

\* C8: with Reject, IsoDate::new fails with a RangeError unless month is in 1..12
\* and day in 1..days_in_month(year, month); when it succeeds the fields are the
\* supplied ones; (2021, 2, 29) fails and (2020, 2, 29) succeeds.
C8_RejectStrict ==
    (Done("IsoDate::new") /\ call.overflow = "Reject") =>
        LET fieldsOk == /\ 1 <= call.month /\ call.month <= 12
                        /\ 1 <= call.day
                        /\ call.day <= iso_days_in_month(call.year, call.month)
            supplied == IsoDate(call.year, call.month, call.day)
        IN  /\ ~fieldsOk => (~ret.ok /\ ret.val = "RangeError")
            /\ ret.ok => ret.val = supplied
            /\ (fieldsOk /\ InLimitDays(IsoDate_to_epoch_days(supplied))) => ret.ok
            /\ (call.year = 2021 /\ call.month = 2 /\ call.day = 29) => ~ret.ok
            /\ (call.year = 2020 /\ call.month = 2 /\ call.day = 29) => ret.ok

C8_Witness ==
    /\ Done("IsoDate::new") /\ call.overflow = "Reject"
    /\ call.year = 2020 /\ call.month = 2 /\ call.day = 29
    /\ ret.ok /\ ret.val = IsoDate(2020, 2, 29)

\* the epoch day of day 1 of 0-based month m (0..11) of year y
FirstOfMonthEpochDay(y, m) == epoch_day_number_for_year(y) + DaysBeforeMonth(m, y)

\* C10: for every year, every 0-based month m (negative and >= 12 included) and
\* every day, iso_date_to_epoch_days is the epoch day of day 1 of month
\* (m mod 12) of year (year + floor(m / 12)), plus day - 1; IsoDate::balance with
\* month <= 0 lands in the previous year(s) accordingly.
C10_MonthResolvesByFloor ==
    /\ Done("iso_date_to_epoch_days") =>
          ret.val = FirstOfMonthEpochDay(call.year + (call.month \div 12),
                                         call.month % 12) + call.day - 1
    /\ (Done("IsoDate::balance") /\ call.day \in 1..28) =>
          ret.val = IsoDate(call.year + ((call.month - 1) \div 12),
                            ((call.month - 1) % 12) + 1, call.day)

(***************************************************************************)
(* Claims about IsoTime::balance and IsoTime::round.                       *)
(***************************************************************************)
TimeInRange(t) ==
    /\ t.hour \in 0..23 /\ t.minute \in 0..59 /\ t.second \in 0..59
    /\ t.millisecond \in 0..999 /\ t.microsecond \in 0..999 /\ t.nanosecond \in 0..999

\* sub-second nanoseconds of a valid time
SubSecondNanos(t) == t.millisecond * 1000000 + t.microsecond * 1000 + t.nanosecond

\* C2: with unit = Minute the result is balance(t.hour, R / (60 * 10^9), 0, 0, 0, 0),
\* R being minute * 60 * 10^9 + second * 10^9 + sub-second nanoseconds rounded to the
\* nearest multiple of increment * 60 * 10^9 under the mode; 12:34:56.700 with
\* increment 15 and half-even gives 12:30:00.000 with day carry 0.
C2_MinuteRound ==
    (Done("IsoTime::round") /\ call.unit = "Minute") =>
        LET t == call.t
            quantity == Nanos(t.minute * 60 + t.second, SubSecondNanos(t))
            minutes == RoundedSteps(quantity, Nanos(60 * call.increment, 0), call.mode)
                          * call.increment
        IN  /\ ret.ok
            /\ ret.val = IsoTime_balance(t.hour, minutes, 0, 0, 0, 0)
            /\ (t = IsoTime(12, 34, 56, 700, 0, 0) /\ call.increment = 15
                    /\ call.mode = "HalfEven") =>
                  ret.val = [days |-> 0, time |-> IsoTime(12, 30, 0, 0, 0, 0)]

\* C5: balancing a valid IsoTime returns day carry 0 and the same six fields.
C5_BalanceIdempotent ==
    (Done("IsoTime::balance") /\ TimeInRange(call.t)) =>
        (ret.val.days = 0 /\ ret.val.time = call.t)

C5_Witness ==
    /\ Done("IsoTime::balance")
    /\ call.t = IsoTime(23, 59, 56, 700, 999, 999)
    /\ ret.val = [days |-> 0, time |-> IsoTime(23, 59, 56, 700, 999, 999)]

\* C6: for integer inputs, negative ones included, every field of the balanced
\* time is in range and days * 86_400 * 10^9 + nanoseconds(time) equals the input
\* total (compared as whole seconds, milliseconds and sub-millisecond
\* nanoseconds); balance(25, 0, 0, 0, 0, 0) = (1, 01:00:00.000000000).
C6_BalanceConserves ==
    Done("IsoTime::balance") =>
        LET i == call.t
            o == ret.val.time
            subMs == i.microsecond * 1000 + i.nanosecond
            msTotal == i.millisecond + (subMs \div 1000000)
            secTotal == i.second + i.minute * 60 + i.hour * 3600 + (msTotal \div 1000)
        IN  /\ TimeInRange(o)
            /\ ret.val.days * 86400 + o.hour * 3600 + o.minute * 60 + o.second = secTotal
            /\ o.millisecond = msTotal % 1000
            /\ o.microsecond * 1000 + o.nanosecond = subMs % 1000000
            /\ (i = IsoTime(25, 0, 0, 0, 0, 0)) =>
                  ret.val = [days |-> 1, time |-> IsoTime(1, 0, 0, 0, 0, 0)]

C6_Witness ==
    /\ Done("IsoTime::balance")
    /\ call.t = IsoTime(0, 0, 0, 0, 0, -1)
    /\ ret.val = [days |-> -1, time |-> IsoTime(23, 59, 59, 999, 999, 999)]

(***************************************************************************)
(* Claims about IsoDate::diff_iso_date.                                    *)
(***************************************************************************)
DiffReverse == IsoDate_diff_iso_date(call.b, call.a, call.unit)

\* C3 as stated: for largest_unit in {Year, Month, Week, Day}, every component of
\* a.diff_iso_date(b) negated equals the component of b.diff_iso_date(a).
C3_DiffNegatesAllComponents ==
    Done("IsoDate::diff_iso_date") =>
        /\ ret.ok /\ DiffReverse.ok
        /\ -ret.val.years = DiffReverse.val.years
        /\ -ret.val.months = DiffReverse.val.months
        /\ -ret.val.weeks = DiffReverse.val.weeks
        /\ -ret.val.days = DiffReverse.val.days

\* C3 amended: for largest_unit in {Year, Month, Day}, years and months of
\* a.diff_iso_date(b) negated equal those of b.diff_iso_date(a) and weeks are 0 on
\* both sides; the days component is the negation too when largest_unit = Day.
C3_DiffNegatesYearsMonths ==
    (Done("IsoDate::diff_iso_date") /\ call.unit \in {"Year", "Month", "Day"}) =>
        /\ ret.ok /\ DiffReverse.ok
        /\ -ret.val.years = DiffReverse.val.years
        /\ -ret.val.months = DiffReverse.val.months
        /\ ret.val.weeks = 0 /\ DiffReverse.val.weeks = 0
        /\ call.unit = "Day" => -ret.val.days = DiffReverse.val.days

C3_Witness ==
    /\ Done("IsoDate::diff_iso_date") /\ call.unit = "Year"
    /\ call.a = IsoDate(1968, 2, 29) /\ call.b = IsoDate(1971, 2, 28)
    /\ ret.ok /\ ret.val = DateDuration(2, 11, 0, 30)
    /\ DiffReverse.ok /\ DiffReverse.val = DateDuration(-2, -11, 0, -28)

\* the year and month k months from a, and the tentative date with a's day
MonthsFrom(a, k) ==
    [year |-> a.year + ((a.month - 1 + k) \div 12), month |-> ((a.month - 1 + k) % 12) + 1]

TentativeSurpasses(a, b, k, sign) ==
    LET ym == MonthsFrom(a, k)
    IN  IsoDate_cmp(IsoDate(ym.year, ym.month, a.day), b) * sign = 1

\* C9: for largest_unit = Month and a # b, months is the offset of largest
\* magnitude in the direction of sign whose tentative date (a.day not clamped)
\* does not surpass b, days is epoch_days(b) minus the epoch day of that
\* year/month with a.day clamped to the month length, years and weeks are 0;
\* {2021,1,31}.diff({2021,3,1}, Month) = {months: 1, days: 1}.
C9_MonthDecomposition ==
    (Done("IsoDate::diff_iso_date") /\ call.unit = "Month" /\ call.a # call.b) =>
        LET a == call.a
            b == call.b
            sign == IF IsoDate_cmp(a, b) < 0 THEN 1 ELSE -1
            k == ret.val.months
            ym == MonthsFrom(a, k)
            dim == iso_days_in_month(ym.year, ym.month)
            day == IF a.day > dim THEN dim ELSE a.day
        IN  /\ ret.ok
            /\ k * sign >= 0
            /\ ~TentativeSurpasses(a, b, k, sign)
            /\ \A j \in 1..(12 * (Abs(b.year - a.year) + 2)) :
                  ~TentativeSurpasses(a, b, j * sign, sign) => j <= k * sign
            /\ ret.val.days = (FirstOfMonthEpochDay(b.year, b.month - 1) + b.day - 1)
                                - (FirstOfMonthEpochDay(ym.year, ym.month - 1) + day - 1)
            /\ ret.val.years = 0 /\ ret.val.weeks = 0
            /\ (a = IsoDate(2021, 1, 31) /\ b = IsoDate(2021, 3, 1)) =>
                  ret.val = DateDuration(0, 1, 0, 1)

C9_Witness ==
    /\ Done("IsoDate::diff_iso_date") /\ call.unit = "Month"
    /\ call.a = IsoDate(2021, 1, 31) /\ call.b = IsoDate(2021, 3, 1)
    /\ ret.ok /\ ret.val = DateDuration(0, 1, 0, 1)

\* the epoch day of a calendar-valid date
EpochDayOf(d) == FirstOfMonthEpochDay(d.year, d.month - 1) + d.day - 1

\* C11: for largest_unit = Week and D = epoch_days(b) - epoch_days(a) of either
\* sign, the result has years = 0, months = 0, weeks = D div 7 and days = D mod 7
\* under Euclidean division, so that 7 * weeks + days = D; for largest_unit = Day,
\* weeks = 0 and days = D.
C11_WeekSplitEuclidean ==
    (Done("IsoDate::diff_iso_date") /\ ret.ok) =>
        LET D == EpochDayOf(call.b) - EpochDayOf(call.a)
        IN  /\ call.unit = "Week" =>
                  /\ ret.val.years = 0 /\ ret.val.months = 0
                  /\ ret.val.weeks = D \div 7
                  /\ ret.val.days = D % 7
                  /\ 7 * ret.val.weeks + ret.val.days = D
            /\ call.unit = "Day" =>
                  /\ ret.val.years = 0 /\ ret.val.months = 0
                  /\ ret.val.weeks = 0 /\ ret.val.days = D
(***************************************************************************)
(* Claims about IsoDate::add_date_duration.                                *)
(***************************************************************************)
\* the year and 1-based month that lie call.duration's years and months after
\* call.self, by floor division
AddYear ==
    call.self.year + call.duration.years
        + ((call.self.month - 1 + call.duration.months) \div 12)

AddMonth == ((call.self.month - 1 + call.duration.months) % 12) + 1

AddedDays == 7 * call.duration.weeks + call.duration.days

\* the finished call is self = 2021-01-31 with the given months and days, no years
\* or weeks
AddFromJan31(months, days, overflow) ==
    /\ Done("IsoDate::add_date_duration")
    /\ call.self = IsoDate(2021, 1, 31)
    /\ call.duration = DateDuration(0, months, 0, days)
    /\ call.overflow = overflow

\* C12: add_date_duration returns IsoDate::balance(Y, M, D + 7 * weeks + days),
\* (Y, M) being the balanced (year + years, month + months) and D the day of self
\* regulated against month M of year Y under the overflow mode: the result is the
\* calendar date D - 1 + 7 * weeks + days days after the first of that month, and
\* with Reject a day past the end of month M fails.  Jan 31 + 1 month is the last
\* day of February with Constrain and a RangeError with Reject; Jan 31 + 1 month
\* + 1 day is Mar 1.
C12_AddTwoPhase ==
    /\ Done("IsoDate::add_date_duration") =>
          LET dim == iso_days_in_month(AddYear, AddMonth)
              D == IF call.self.day > dim THEN dim ELSE call.self.day
          IN  IF call.overflow = "Reject" /\ call.self.day > dim
              THEN ret = RangeError
              ELSE /\ ret.ok
                   /\ ret.val = IsoDate_balance(AddYear, AddMonth, D + AddedDays)
                   /\ is_valid_date(ret.val.year, ret.val.month, ret.val.day)
                   /\ EpochDayOf(ret.val)
                        = FirstOfMonthEpochDay(AddYear, AddMonth - 1) + D - 1 + AddedDays
    /\ AddFromJan31(1, 0, "Constrain") => ret = Ok(IsoDate(2021, 2, 28))
    /\ AddFromJan31(1, 0, "Reject") => ret = RangeError
    /\ AddFromJan31(1, 1, "Constrain") => ret = Ok(IsoDate(2021, 3, 1))

\* C12 witness: Jan 31 + 1 month + 1 day under Constrain has returned Mar 1
C12_Witness == AddFromJan31(1, 1, "Constrain") /\ ret = Ok(IsoDate(2021, 3, 1))

(***************************************************************************)
(* Claims about IsoTime::round.                                            *)
(***************************************************************************)
\* the finished call is a round whose unit width is zero
RoundZeroWidth ==
    /\ Done("IsoTime::round") /\ call.unit \in RoundUnits
    /\ RoundUnitWidth(call.unit, call.day_length_ns) = Nanos(0, 0)

\* C13: with unit = Day and day_length_ns = Some(0), round returns an error from
\* a checked non-zero construction and does not go on to the rounding arithmetic;
\* no call of round divides by, or builds a NonZero value from, a zero unit width.
C13_CheckedUnitWidth ==
    RoundZeroWidth => ret \in {RangeError, AssertError}

\* the remainder of a by d, for a >= 0 and d > 0
RECURSIVE NanosRem(_, _)
NanosRem(a, d) ==
    IF NanosLt(a, d) THEN a
    ELSE LET r == NanosRem(a, NanosDouble(d))
         IN  IF NanosLt(r, d) THEN r ELSE NanosSub(r, d)

\* the nanoseconds of a result of round, its day carry included
RoundResultNanos(r) ==
    Nanos(r.days * 86400 + r.time.hour * 3600 + r.time.minute * 60 + r.time.second,
          SubSecondNanos(r.time))

\* the width of the next coarser unit; a day has none
CoarserWidth(unit) ==
    CASE unit = "Hour" -> Nanos(86400, 0)
      [] unit = "Second" -> Nanos(60, 0)
      [] unit = "Millisecond" -> Nanos(1, 0)
      [] unit = "Microsecond" -> Nanos(0, 1000000)
      [] unit = "Nanosecond" -> Nanos(0, 1000)
      [] OTHER -> Nanos(0, 0)

\* the units C14 is about
C14_Units == {"Day", "Hour", "Second", "Millisecond", "Microsecond", "Nanosecond"}

\* the nanoseconds of the fields of t at or finer than the unit
FieldsFrom(t, unit) ==
    CASE unit \in {"Day", "Hour"} ->
           Nanos(t.hour * 3600 + t.minute * 60 + t.second, SubSecondNanos(t))
      [] unit = "Second" -> Nanos(t.second, SubSecondNanos(t))
      [] unit = "Millisecond" -> Nanos(0, SubSecondNanos(t))
      [] unit = "Microsecond" -> Nanos(0, t.microsecond * 1000 + t.nanosecond)
      [] OTHER -> Nanos(0, t.nanosecond)

\* C14: for Hour, Second, Millisecond, Microsecond and Nanosecond the quantity is
\* the nanosecond value of the fields at or finer than the unit, rounded under the
\* mode to a multiple of unit-width * increment and divided by the unit width to a
\* count c; the result is balance(coarser fields of t, c at the unit, 0 below it),
\* and for Day it is (c, 00:00:00.000000000).  Whenever unit-width * increment
\* divides the width of the next coarser unit, day carry * 86_400 * 10^9 plus the
\* nanoseconds of the result time is a multiple of unit-width * increment.
C14_RoundOtherUnits ==
    (Done("IsoTime::round") /\ call.unit \in C14_Units /\ ~RoundZeroWidth) =>
        LET t == call.t
            width == RoundUnitWidth(call.unit, call.day_length_ns)
            step == NanosScale(width, call.increment)
            c == RoundedSteps(FieldsFrom(t, call.unit), step, call.mode) * call.increment
            expected ==
                CASE call.unit = "Day" -> [days |-> c, time |-> IsoTime_default]
                  [] call.unit = "Hour" -> IsoTime_balance(c, 0, 0, 0, 0, 0)
                  [] call.unit = "Second" -> IsoTime_balance(t.hour, t.minute, c, 0, 0, 0)
                  [] call.unit = "Millisecond" ->
                       IsoTime_balance(t.hour, t.minute, t.second, c, 0, 0)
                  [] call.unit = "Microsecond" ->
                       IsoTime_balance(t.hour, t.minute, t.second, t.millisecond, c, 0)
                  [] OTHER ->
                       IsoTime_balance(t.hour, t.minute, t.second, t.millisecond,
                                       t.microsecond, c)
        IN  /\ ret = Ok(expected)
            /\ TimeInRange(ret.val.time)
            /\ (call.unit # "Day" /\ NanosRem(CoarserWidth(call.unit), step) = Nanos(0, 0))
                  => NanosRem(RoundResultNanos(ret.val), step) = Nanos(0, 0)

\* C14 witness: 12:34:56.700 rounded to 15 seconds, half-even, is 12:35:00
C14_Witness ==
    /\ Done("IsoTime::round") /\ call.unit = "Second" /\ call.increment = 15
    /\ call.mode = "HalfEven" /\ call.t = IsoTime(12, 34, 56, 700, 0, 0)
    /\ ret = Ok([days |-> 0, time |-> IsoTime(12, 35, 0, 0, 0, 0)])

(***************************************************************************)
(* Claims about IsoDateTime::add_date_duration.                            *)
(***************************************************************************)
\* the date of the returned date-time is a valid date within the range of IsoDate
ReturnedDateInRange ==
    IsoDate_new(ret.val.date.year, ret.val.date.month, ret.val.date.day, "Reject").ok

\* C15: whenever IsoDateTime::add_date_duration returns Ok(dt), the calendar's
\* date being a valid in-range IsoDate, dt.is_within_limits() is true; a sum
\* outside the window is reported as an error and never returned.
C15_AddRevalidates ==
    (Done("IsoDateTime::add_date_duration") /\ ret.ok /\ ReturnedDateInRange) =>
        IsoDateTime_is_within_limits(ret.val)

(***************************************************************************)
(* Claims about the loops of IsoDate::diff_iso_date.                       *)
(***************************************************************************)
\* a pass of the year loop moves its tentative date strictly toward call.b's side
YearStepAdvances ==
    YearStep =>
        IsoDate_cmp(YearTentative(call.a, ret'.candidate_years),
                    YearTentative(call.a, ret.candidate_years)) = ret.sign

\* a pass of the month loop moves its tentative date strictly toward call.b's side
MonthStepAdvances ==
    MonthStep =>
        IsoDate_cmp(MonthTentative(ret'.intermediate, call.a.day),
                    MonthTentative(ret.intermediate, call.a.day)) = ret.sign

\* the passes made so far stay within the bounds of C16, and the finished run
\* returns what diff_iso_date returns
LoopPassesBounded ==
    /\ (pc # "idle" /\ call.unit = "Year") =>
          ret.year_passes <= 2 /\ ret.month_passes <= 12
    /\ pc = "done" =>
          ret.result = IsoDate_diff_iso_date(call.a, call.b, call.unit)

\* C16: for every pair a # b and every largest_unit both loops of diff_iso_date
\* end: each pass moves the tentative date strictly toward and then past b, the
\* function gets past both loops, and with largest_unit = Year the year loop makes
\* at most 2 passes and the month loop at most 12.
C16_LoopsTerminate ==
    /\ []LoopPassesBounded
    /\ [][YearStepAdvances /\ MonthStepAdvances]_vars
    /\ <>(pc \in {"remainder", "done"})

\* C16 witness: a finished difference by Year whose year loop made 2 passes and
\* whose month loop made 11
C16_Witness ==
    /\ pc = "done" /\ call.fn = "IsoDate::diff_iso_date" /\ call.unit = "Year"
    /\ call.a # call.b
    /\ ret.year_passes = 2 /\ ret.month_passes = 11

(***************************************************************************)
(* Claims about IsoDateTime::from_epoch_nanos.                             *)
(***************************************************************************)
\* n + o of the finished call, as whole milliseconds and nanoseconds below one
SumMillis == call.nanos.ms + ((call.nanos.sub + call.offset) \div 1000000)

SumSubMillis == (call.nanos.sub + call.offset) % 1000000

\* C17: for every integer n of the valid instant range, negative values and
\* values that are no multiple of 10^6 included, and every sub-day integer offset
\* o, from_epoch_nanos returns a calendar-valid date and in-range time fields with
\* epoch_days(date) * 86_400 * 10^9 + nanoseconds since midnight = n + o; n = -1
\* with no offset gives 1969-12-31T23:59:59.999999999.
C17_FromEpochNanosReconstructs ==
    Done("IsoDateTime::from_epoch_nanos") =>
        /\ ret.ok
        /\ is_valid_date(ret.val.date.year, ret.val.date.month, ret.val.date.day)
        /\ TimeInRange(ret.val.time)
        /\ EpochDayOf(ret.val.date) = SumMillis \div MS_PER_DAY
        /\ IsoTime_to_epoch_ms(ret.val.time) = SumMillis % MS_PER_DAY
        /\ ret.val.time.microsecond * 1000 + ret.val.time.nanosecond = SumSubMillis
        /\ (call.nanos = EpochNanos(-1, 999999) /\ call.offset = 0) =>
              ret.val = IsoDateTime(IsoDate(1969, 12, 31),
                                    IsoTime(23, 59, 59, 999, 999, 999))

\* the reconstruction holds for the instants at or after the epoch
FromEpochNanosAfterEpoch ==
    (Done("IsoDateTime::from_epoch_nanos") /\ call.nanos.ms >= 0) =>
        /\ ret.ok
        /\ is_valid_date(ret.val.date.year, ret.val.date.month, ret.val.date.day)
        /\ TimeInRange(ret.val.time)
        /\ EpochDayOf(ret.val.date) = SumMillis \div MS_PER_DAY
        /\ IsoTime_to_epoch_ms(ret.val.time) = SumMillis % MS_PER_DAY
        /\ ret.val.time.microsecond * 1000 + ret.val.time.nanosecond = SumSubMillis

(***************************************************************************)
(* Claims about diff_iso_date followed by add_date_duration.               *)
(***************************************************************************)
\* the sign of b compared with a for the finished difference a.diff_iso_date(b)
DiffSign == IsoDate_cmp(call.b, call.a)

\* c is zero or of the sign s
ZeroOrSign(c, s) == c = 0 \/ CmpInt(c, 0) = s

\* C18: for valid dates a and b and a unit of Year, Month or Day, every non-zero
\* component of r = a.diff_iso_date(b, unit) has the sign of b compared with a, and
\* a.add_date_duration(r, Constrain) is b.
C18_DiffThenAdd ==
    (Done("IsoDate::diff_iso_date") /\ call.unit \in {"Year", "Month", "Day"}) =>
        /\ ret.ok
        /\ ZeroOrSign(ret.val.years, DiffSign) /\ ZeroOrSign(ret.val.months, DiffSign)
        /\ ZeroOrSign(ret.val.weeks, DiffSign) /\ ZeroOrSign(ret.val.days, DiffSign)
        /\ IsoDate_add_date_duration(call.a, ret.val, "Constrain") = Ok(call.b)

\* C18 witness: 2021-01-31 to 2021-03-01 by Month is 1 month and 1 day, and adding
\* it back clamps to Feb 28 and lands on Mar 1
C18_Witness ==
    /\ Done("IsoDate::diff_iso_date") /\ call.unit = "Month"
    /\ call.a = IsoDate(2021, 1, 31) /\ call.b = IsoDate(2021, 3, 1)
    /\ ret = Ok(DateDuration(0, 1, 0, 1))
    /\ IsoDate_add_date_duration(call.a, ret.val, "Constrain") = Ok(call.b)

====
